---- MODULE Spec2Model ----
(***************************************************************************)
(* A model of the YAML2Python terminal editor (gptCLI.py) and of its       *)
(* completion client (gptInterpreter.py).                                  *)
(*                                                                         *)
(* A text is a sequence of atoms.  An atom is a single character, or one   *)
(* of the lexemes the program searches for ("Status:", "Desc:", "Next:",   *)
(* "Code:", and the two markdown fence markers: three backquotes followed  *)
(* by python, and three backquotes), which stands for its characters.  A   *)
(* key is the character it produces, or the name of a curses key above 255.*)
(***************************************************************************)
EXTENDS Integers, Sequences, FiniteSets, TLC

(***************************************************************************)
(* Bounds of the model.                                                    *)
(***************************************************************************)
MaxLines == 2
MaxCols == 1
MaxChars == 2
MaxHeight == 1
MaxField == 2
MaxHead == 1
MaxReply == 4
MaxCode == 4
TokenSlack == 12

(***************************************************************************)
(* Python's str operations, on texts.                                      *)
(***************************************************************************)
NL == "\n"
FF == "\f"

\* str.isspace() of one character (the characters the model uses)
IsSpace(c) == c \in {" ", NL, FF, "\t"}

\* the line boundaries of str.splitlines() (the characters the model uses)
IsLineBreak(c) == c \in {NL, FF}

Min(a, b) == IF a < b THEN a ELSE b
Max(a, b) == IF a > b THEN a ELSE b

\* t[i:] and t[:i] of Python, with 0-based i in 0..len(t)
From(t, i) == SubSeq(t, i + 1, Len(t))
Upto(t, i) == SubSeq(t, 1, i)

\* number of leading / trailing whitespace atoms
RECURSIVE LeadSpaces(_)
LeadSpaces(t) ==
    IF t = <<>> \/ ~IsSpace(Head(t)) THEN 0 ELSE 1 + LeadSpaces(Tail(t))

RECURSIVE TrailSpaces(_)
TrailSpaces(t) ==
    IF t = <<>> \/ ~IsSpace(t[Len(t)]) THEN 0
    ELSE 1 + TrailSpaces(SubSeq(t, 1, Len(t) - 1))

\* str.strip()
Strip(t) ==
    LET u == From(t, LeadSpaces(t))
    IN  SubSeq(u, 1, Len(u) - TrailSpaces(u))

\* str.lstrip(ch)
RECURSIVE LStripChar(_, _)
LStripChar(t, ch) ==
    IF t = <<>> \/ Head(t) # ch THEN t ELSE LStripChar(Tail(t), ch)

\* length of the first run of non-whitespace atoms
RECURSIVE WordLen(_)
WordLen(t) ==
    IF t = <<>> \/ IsSpace(Head(t)) THEN 0 ELSE 1 + WordLen(Tail(t))

\* str.split() with no argument: the runs of non-whitespace
RECURSIVE Split(_)
Split(t) ==
    LET u == From(t, LeadSpaces(t))
    IN  IF u = <<>> THEN <<>>
        ELSE <<Upto(u, WordLen(u))>> \o Split(From(u, WordLen(u)))

\* sep.join(parts)
RECURSIVE Join(_, _)
Join(parts, sep) ==
    IF parts = <<>> THEN <<>>
    ELSE IF Len(parts) = 1 THEN parts[1]
    ELSE parts[1] \o sep \o Join(Tail(parts), sep)

\* length of the first line of t (up to its first line boundary)
RECURSIVE LineLen(_)
LineLen(t) ==
    IF t = <<>> \/ IsLineBreak(Head(t)) THEN 0 ELSE 1 + LineLen(Tail(t))

\* str.splitlines(): no line for the empty text, none after a final boundary
RECURSIVE SplitLines(_)
SplitLines(t) ==
    IF t = <<>> THEN <<>>
    ELSE LET n == LineLen(t)
         IN  IF n = Len(t) THEN <<t>>
             ELSE <<Upto(t, n)>> \o SplitLines(From(t, n + 1))

\* str.lower() of one character (the letters the model uses in upper case)
LowerChar(c) ==
    CASE c = "E" -> "e"
      [] c = "O" -> "o"
      [] OTHER -> c

Lower(t) == [i \in 1..Len(t) |-> LowerChar(t[i])]

\* the set of texts over an alphabet, of length at most n
TextsUpTo(alphabet, n) == UNION {[1..k -> alphabet] : k \in 0..n}

(***************************************************************************)
(* The state of run_editor.  pc is the place the program waits at: "loop"  *)
(* is the getch of the main loop, "output" the getch of the Code Runner's  *)
(* output screen, "exited" the return of run_editor after the exit verb,   *)
(* "crashed" an exception that left run_editor.                            *)
(***************************************************************************)
VARIABLES buffer, cursor_y, cursor_x, scroll_offset, editor_height,
          mode, command_str, pc, msg,
          last_compile_response, api_key, env_api_key, fs,
          header_text, code_section, output,
          system_tokens, user_tokens, max_tokens, request, raised

vars == <<buffer, cursor_y, cursor_x, scroll_offset, editor_height,
          mode, command_str, pc, msg,
          last_compile_response, api_key, env_api_key, fs,
          header_text, code_section, output,
          system_tokens, user_tokens, max_tokens, request, raised>>

\* the state as one value, for the handlers below
State ==
    [buffer |-> buffer, cursor_y |-> cursor_y, cursor_x |-> cursor_x,
     scroll_offset |-> scroll_offset, editor_height |-> editor_height,
     mode |-> mode, command_str |-> command_str, pc |-> pc,
     msg |-> msg, last_compile_response |-> last_compile_response,
     api_key |-> api_key, env_api_key |-> env_api_key, fs |-> fs,
     header_text |-> header_text, code_section |-> code_section,
     output |-> output, system_tokens |-> system_tokens,
     user_tokens |-> user_tokens, max_tokens |-> max_tokens,
     request |-> request, raised |-> raised]

\* the next state is s
Becomes(s) ==
    /\ buffer' = s.buffer
    /\ cursor_y' = s.cursor_y
    /\ cursor_x' = s.cursor_x
    /\ scroll_offset' = s.scroll_offset
    /\ editor_height' = s.editor_height
    /\ mode' = s.mode
    /\ command_str' = s.command_str
    /\ pc' = s.pc
    /\ msg' = s.msg
    /\ last_compile_response' = s.last_compile_response
    /\ api_key' = s.api_key
    /\ env_api_key' = s.env_api_key
    /\ fs' = s.fs
    /\ header_text' = s.header_text
    /\ code_section' = s.code_section
    /\ output' = s.output
    /\ system_tokens' = s.system_tokens
    /\ user_tokens' = s.user_tokens
    /\ max_tokens' = s.max_tokens
    /\ request' = s.request
    /\ raised' = s.raised

(***************************************************************************)
(* Keys.  curses keys above 255 are named; a key in 0..255 is the          *)
(* character chr(key): enter is "\n" (10), escape is "ESC" (27).           *)
(***************************************************************************)
KEY_BACKSPACE == "KEY_BACKSPACE"
KEY_LEFT == "KEY_LEFT"
KEY_RIGHT == "KEY_RIGHT"
KEY_UP == "KEY_UP"
KEY_DOWN == "KEY_DOWN"
KEY_RESIZE == "KEY_RESIZE"
ESC == "ESC"
PREFIX == ";"

\* the keys outside 0..255
WideKeys == {KEY_BACKSPACE, KEY_LEFT, KEY_RIGHT, KEY_UP, KEY_DOWN, KEY_RESIZE}

\* 0 <= key <= 255
IsChar(k) == k \notin WideKeys

(***************************************************************************)
(* Insert mode: the Text Buffer operations, on (buffer, cursor_y,          *)
(* cursor_x) with 0-based cursor as in the source.                         *)
(***************************************************************************)
Line(s) == s.buffer[s.cursor_y + 1]

\* buffer[y] = v
SetLine(buf, y, v) == [buf EXCEPT ![y + 1] = v]

\* buffer.pop(y)
PopLine(buf, y) == SubSeq(buf, 1, y) \o SubSeq(buf, y + 2, Len(buf))

\* buffer.insert(y, v)
InsertLine(buf, y, v) == SubSeq(buf, 1, y) \o <<v>> \o SubSeq(buf, y + 1, Len(buf))

\* a backspace key that deletes inside a line only and never joins two lines
BackspaceInLine(s) ==
    IF s.cursor_x > 0
    THEN [s EXCEPT !.buffer = SetLine(s.buffer, s.cursor_y,
                        Upto(Line(s), s.cursor_x - 1) \o From(Line(s), s.cursor_x)),
                   !.cursor_x = s.cursor_x - 1]
    ELSE s

Backspace(s) ==
    IF s.cursor_x > 0
    THEN [s EXCEPT !.buffer = SetLine(s.buffer, s.cursor_y,
                        Upto(Line(s), s.cursor_x - 1) \o From(Line(s), s.cursor_x)),
                   !.cursor_x = s.cursor_x - 1]
    ELSE IF s.cursor_y > 0
    THEN LET prev_line == s.buffer[s.cursor_y]
             current_line == Line(s)
         IN  [s EXCEPT !.buffer = SetLine(PopLine(s.buffer, s.cursor_y),
                                          s.cursor_y - 1, prev_line \o current_line),
                       !.cursor_y = s.cursor_y - 1,
                       !.cursor_x = Len(prev_line)]
    ELSE s

Enter(s) ==
    [s EXCEPT !.buffer = InsertLine(SetLine(s.buffer, s.cursor_y, Upto(Line(s), s.cursor_x)),
                                    s.cursor_y + 1, From(Line(s), s.cursor_x)),
              !.cursor_y = s.cursor_y + 1,
              !.cursor_x = 0]

\* a left arrow that wraps from the start of the Document to its end
LeftWraps(s) ==
    IF s.cursor_x > 0 THEN [s EXCEPT !.cursor_x = s.cursor_x - 1]
    ELSE IF s.cursor_y > 0
    THEN [s EXCEPT !.cursor_y = s.cursor_y - 1, !.cursor_x = Len(s.buffer[s.cursor_y])]
    ELSE [s EXCEPT !.cursor_y = Len(s.buffer) - 1,
                   !.cursor_x = Len(s.buffer[Len(s.buffer)])]

Left(s) ==
    IF s.cursor_x > 0 THEN [s EXCEPT !.cursor_x = s.cursor_x - 1]
    ELSE IF s.cursor_y > 0
    THEN [s EXCEPT !.cursor_y = s.cursor_y - 1, !.cursor_x = Len(s.buffer[s.cursor_y])]
    ELSE s

Right(s) ==
    IF s.cursor_x < Len(Line(s)) THEN [s EXCEPT !.cursor_x = s.cursor_x + 1]
    ELSE IF s.cursor_y < Len(s.buffer) - 1
    THEN [s EXCEPT !.cursor_y = s.cursor_y + 1, !.cursor_x = 0]
    ELSE s

\* an up arrow that keeps the column
UpKeepsColumn(s) ==
    IF s.cursor_y > 0 THEN [s EXCEPT !.cursor_y = s.cursor_y - 1] ELSE s

Up(s) ==
    IF s.cursor_y > 0
    THEN [s EXCEPT !.cursor_y = s.cursor_y - 1,
                   !.cursor_x = Min(s.cursor_x, Len(s.buffer[s.cursor_y]))]
    ELSE s

Down(s) ==
    IF s.cursor_y < Len(s.buffer) - 1
    THEN [s EXCEPT !.cursor_y = s.cursor_y + 1,
                   !.cursor_x = Min(s.cursor_x, Len(s.buffer[s.cursor_y + 2]))]
    ELSE s

InsertChar(s, ch) ==
    [s EXCEPT !.buffer = SetLine(s.buffer, s.cursor_y,
                   Upto(Line(s), s.cursor_x) \o <<ch>> \o From(Line(s), s.cursor_x)),
              !.cursor_x = s.cursor_x + 1]

\* the insert-mode branch of the main loop
InsertKey(s, k) ==
    IF k = PREFIX THEN [s EXCEPT !.mode = "command", !.command_str = <<PREFIX>>]
    ELSE IF k = KEY_BACKSPACE THEN Backspace(s)
    ELSE IF k = NL THEN Enter(s)
    ELSE IF k = KEY_LEFT THEN Left(s)
    ELSE IF k = KEY_RIGHT THEN Right(s)
    ELSE IF k = KEY_UP THEN Up(s)
    ELSE IF k = KEY_DOWN THEN Down(s)
    ELSE IF IsChar(k) THEN InsertChar(s, k)
    ELSE s

\* a scroll adjustment that never moves the window up
ScrollDownOnly(s) ==
    IF s.cursor_y >= s.scroll_offset + s.editor_height
    THEN [s EXCEPT !.scroll_offset = s.cursor_y - s.editor_height + 1]
    ELSE s

\* the end of the loop body: keep the cursor row inside the window
Scroll(s) ==
    IF s.cursor_y < s.scroll_offset THEN [s EXCEPT !.scroll_offset = s.cursor_y]
    ELSE IF s.cursor_y >= s.scroll_offset + s.editor_height
    THEN [s EXCEPT !.scroll_offset = s.cursor_y - s.editor_height + 1]
    ELSE s

(***************************************************************************)
(* The Response Parser: the regular expressions of the execute, compile    *)
(* and run verbs, matched as Python's re matches them (leftmost start,     *)
(* greedy \s*, lazy groups, DOTALL).  Positions are 1-based indices.       *)
(***************************************************************************)
STATUS == "Status:"
DESC == "Desc:"
NEXT == "Next:"
CODE == "Code:"
\* the markdown fence markers: three backquotes with, and without, python
FENCE_PY == "<fence>python"
FENCE == "<fence>"

\* the label that follows group n of the strict pattern
LabelAfter(n) == CASE n = 1 -> DESC [] n = 2 -> NEXT [] OTHER -> CODE

\* number of whitespace atoms of t from position p on
SpacesAt(t, p) == LeadSpaces(SubSeq(t, p, Len(t)))

\* "\n<label>" stands at position e of t
LabelAt(t, e, label) == e + 1 <= Len(t) /\ t[e] = NL /\ t[e + 1] = label

\* group n may end at e: "\n<next label>" stands there and the rest of the
\* pattern matches behind it (the last group, (.*), always matches)
RECURSIVE GroupEnds(_, _, _)
GroupEnds(t, n, e) ==
    /\ LabelAt(t, e, LabelAfter(n))
    /\ \/ n = 3
       \/ \E e2 \in (e + 2)..Len(t) : GroupEnds(t, n + 1, e2)

\* \s*(.*?) of group n, entered at position p: the longest run of whitespace
\* after which the group can still end, then the first such end
GroupSkip(t, n, p) ==
    LET ks == {k \in 0..SpacesAt(t, p) : \E e \in (p + k)..Len(t) : GroupEnds(t, n, e)}
    IN  CHOOSE k \in ks : \A j \in ks : j <= k

GroupEnd(t, n, p) ==
    LET from == p + GroupSkip(t, n, p)
        es == {e \in from..Len(t) : GroupEnds(t, n, e)}
    IN  CHOOSE e \in es : \A j \in es : e <= j

\* the starts at which the strict pattern matches
StrictStarts(t) ==
    {i \in 1..Len(t) : t[i] = STATUS /\ \E e \in (i + 1)..Len(t) : GroupEnds(t, 1, e)}

\* the groups n..4 of a match whose group n is entered at position p
RECURSIVE Groups(_, _, _)
Groups(t, n, p) ==
    IF n = 4 THEN <<SubSeq(t, p + SpacesAt(t, p), Len(t))>>
    ELSE <<SubSeq(t, p + GroupSkip(t, n, p), GroupEnd(t, n, p) - 1)>>
             \o Groups(t, n + 1, GroupEnd(t, n, p) + 2)

\* the least element of a set of numbers that is not empty
Least(S) == CHOOSE i \in S : \A j \in S : i <= j

\* re.search(r"Status:\s*(.*?)\nDesc:\s*(.*?)\nNext:\s*(.*?)\nCode:\s*(.*)", t,
\* re.DOTALL): whether it matches, and its four groups
StrictSearch(t) ==
    IF StrictStarts(t) = {} THEN [matched |-> FALSE, group |-> <<>>]
    ELSE [matched |-> TRUE, group |-> Groups(t, 1, Least(StrictStarts(t)) + 1)]

\* "Code:" in t
HasCode(t) == \E i \in 1..Len(t) : t[i] = CODE

\* position of the first atom a of t (Len(t) + 1 if none)
RECURSIVE FirstAt(_, _)
FirstAt(t, a) ==
    IF t = <<>> \/ Head(t) = a THEN 1 ELSE 1 + FirstAt(Tail(t), a)

\* t.split(a)[0] and t.split(a)[1], for t that contains the atom a
SplitFirst(t, a) == SubSeq(t, 1, FirstAt(t, a) - 1)
SplitSecond(t, a) ==
    LET rest == SubSeq(t, FirstAt(t, a) + 1, Len(t))
    IN  SubSeq(rest, 1, FirstAt(rest, a) - 1)

\* f"Status: {status_text}\nDesc: {desc_text}\nNext: {next_text}"
HeaderOf(status_text, desc_text, next_text) ==
    <<STATUS, " ">> \o status_text \o <<NL, DESC, " ">> \o desc_text
        \o <<NL, NEXT, " ">> \o next_text

\* a parse that keeps the groups as matched, untrimmed
ParseExecuteRaw(response) ==
    LET match == StrictSearch(response)
    IN  IF match.matched
        THEN [header_text |-> HeaderOf(match.group[1], match.group[2], match.group[3]),
              code_section |-> match.group[4]]
        ELSE [header_text |-> IF HasCode(response)
                              THEN Strip(SplitFirst(response, CODE))
                              ELSE Strip(response),
              code_section |-> IF HasCode(response)
                               THEN Strip(SplitSecond(response, CODE))
                               ELSE <<>>]

\* a parse with no fallback: nothing is shown when the strict pattern fails
ParseExecuteStrictOnly(response) ==
    LET match == StrictSearch(response)
    IN  IF match.matched
        THEN [header_text |-> HeaderOf(Strip(match.group[1]), Strip(match.group[2]),
                                       Strip(match.group[3])),
              code_section |-> Strip(match.group[4])]
        ELSE [header_text |-> <<>>, code_section |-> <<>>]

\* the parse of the execute verb: header_text and code_section
ParseExecute(response) ==
    LET match == StrictSearch(response)
    IN  IF match.matched
        THEN [header_text |-> HeaderOf(Strip(match.group[1]), Strip(match.group[2]),
                                       Strip(match.group[3])),
              code_section |-> Strip(match.group[4])]
        ELSE [header_text |-> IF HasCode(response)
                              THEN Strip(SplitFirst(response, CODE))
                              ELSE Strip(response),
              code_section |-> IF HasCode(response)
                               THEN Strip(SplitSecond(response, CODE))
                               ELSE <<>>]

\* a compile parse that never tries the strict pattern
ParseCompileSplitOnly(response) ==
    IF HasCode(response) THEN Strip(SplitFirst(response, CODE)) ELSE Strip(response)

\* the parse of the compile verb: header_text
ParseCompile(response) ==
    IF HasCode(response)
    THEN LET match == StrictSearch(response)
         IN  IF match.matched
             THEN HeaderOf(Strip(match.group[1]), Strip(match.group[2]),
                           Strip(match.group[3]))
             ELSE Strip(SplitFirst(response, CODE))
    ELSE Strip(response)

\* re.search(r"Code:\s*(.*)", t, re.DOTALL).group(1).strip() of run and savepy,
\* for t that contains "Code:"
CodeOf(t) == Strip(SubSeq(t, FirstAt(t, CODE) + 1, Len(t)))

(***************************************************************************)
(* The preprocessing of the Code Runner, and the one of savepy.            *)
(***************************************************************************)
\* t.replace(a, "") for an atom a
Remove(t, a) == SelectSeq(t, LAMBDA c : c # a)

\* re.match(r"^\s*(Status:|Desc:|Next:)", line)
IsHeaderLine(line) ==
    LET k == LeadSpaces(line)
    IN  k < Len(line) /\ line[k + 1] \in {STATUS, DESC, NEXT}

CommentOut(line) == IF IsHeaderLine(line) THEN <<"#">> \o line ELSE line

\* lines 127-136 of run_code_section: the text written to the scratch file
Preprocess(code_str) ==
    LET stripped == Remove(Remove(code_str, FENCE_PY), FENCE)
        lines == SplitLines(stripped)
    IN  Join([i \in 1..Len(lines) |-> CommentOut(lines[i])], <<NL>>)

\* lines 386-388 of savepy: the text written to the file
PreprocessSavePy(code_section_) ==
    LET stripped == Remove(Remove(code_section_, FENCE_PY), FENCE)
    IN  Join(SelectSeq(SplitLines(stripped), LAMBDA line : ~IsHeaderLine(line)), <<NL>>)

(***************************************************************************)
(* The Completion Client.  The token counts (tiktoken) and the answer of   *)
(* the service are inputs.  request is the completion request the last     *)
(* call issued: <<>> if it issued none, else <<max_tokens sent>>; raised   *)
(* is the exception the last call raised ("" if none).                     *)
(***************************************************************************)
MAX_CONTEXT_TOKENS == 8192
CONTEXT_MARGIN == 10
MESSAGE_OVERHEAD == 3
DEFAULT_MAX_TOKENS == 8000

None == <<>>
Some(v) == <<v>>

\* a client that falls back to a built-in key
ClientKeyBuiltIn(s) ==
    IF s.api_key # <<>> THEN s.api_key
    ELSE IF s.env_api_key # <<>> THEN s.env_api_key
    ELSE <<"b">>

\* ChatGPTClient.__init__: api_key or os.getenv("OPENAI_API_KEY")
ClientKey(s) == IF s.api_key # <<>> THEN s.api_key ELSE s.env_api_key

TotalInputTokens(system_tokens_, user_tokens_) ==
    system_tokens_ + user_tokens_ + 2 * MESSAGE_OVERHEAD

\* a budget that forgets the safety margin
AllowedResponseTokensNoMargin(system_tokens_, user_tokens_, max_tokens_) ==
    Min(max_tokens_, MAX_CONTEXT_TOKENS - TotalInputTokens(system_tokens_, user_tokens_))

AllowedResponseTokens(system_tokens_, user_tokens_, max_tokens_) ==
    Min(max_tokens_,
        MAX_CONTEXT_TOKENS - TotalInputTokens(system_tokens_, user_tokens_) - CONTEXT_MARGIN)

\* the input alone fills the context window
InputTooLarge(total_input_tokens) == total_input_tokens >= MAX_CONTEXT_TOKENS

\* a client that sends the request without looking at the token counts
GetResponseUnchecked(s, max_tokens_, inp) ==
    LET s1 == [s EXCEPT !.system_tokens = inp.system_tokens,
                        !.user_tokens = inp.user_tokens,
                        !.max_tokens = max_tokens_,
                        !.request = Some(max_tokens_),
                        !.raised = ""]
    IN  IF ClientKey(s) = <<>>
        THEN [s EXCEPT !.request = None, !.raised = "ValueError: API key must be provided"]
        ELSE IF ~inp.service.ok THEN [s1 EXCEPT !.raised = "service error"]
        ELSE s1

\* ChatGPTClient(api_key).get_response(...): inp.system_tokens and
\* inp.user_tokens are the counts tiktoken gives, inp.service the answer of the
\* service to a request ([ok |-> FALSE] when the request fails).  The result is
\* the state with system_tokens, user_tokens, max_tokens, request and raised
\* set; the reply is inp.service.text when raised is "".
GetResponse(s, max_tokens_, inp) ==
    LET s0 == [s EXCEPT !.request = None, !.raised = ""]
    IN  IF ClientKey(s) = <<>>
        THEN [s0 EXCEPT !.raised = "ValueError: API key must be provided"]
        ELSE LET s1 == [s0 EXCEPT !.system_tokens = inp.system_tokens,
                                  !.user_tokens = inp.user_tokens,
                                  !.max_tokens = max_tokens_]
                 allowed == AllowedResponseTokens(inp.system_tokens, inp.user_tokens,
                                                  max_tokens_)
             IN  IF InputTooLarge(TotalInputTokens(inp.system_tokens, inp.user_tokens))
                 THEN [s1 EXCEPT !.raised = "ValueError: input exceeds context length"]
                 ELSE IF allowed < 1
                 THEN [s1 EXCEPT !.raised = "ValueError: not enough tokens left"]
                 ELSE IF ~inp.service.ok
                 THEN [s1 EXCEPT !.request = Some(allowed), !.raised = "service error"]
                 ELSE [s1 EXCEPT !.request = Some(allowed)]

(***************************************************************************)
(* The files of the working directory: a name (a text) has no entry, is a  *)
(* directory, or is a file with a content.                                 *)
(***************************************************************************)
NoEntry == [kind |-> "none", content |-> <<>>]
Directory == [kind |-> "dir", content |-> <<>>]
File(content) == [kind |-> "file", content |-> content]

API_KEY_FILENAME == <<"apikey.txt">>
TEMP_FILENAME == <<"temp_code.py">>

EntryOf(files, name) == IF name \in DOMAIN files THEN files[name] ELSE NoEntry

\* os.path.exists(name)
Exists(files, name) == EntryOf(files, name).kind # "none"

\* open(name, "r") succeeds
Readable(files, name) == EntryOf(files, name).kind = "file"

\* open(name, "w") succeeds
Writable(files, name) == EntryOf(files, name).kind # "dir"

\* with open(name, "w") as f: f.write(content)
Written(files, name, content) ==
    [n \in DOMAIN files \cup {name} |-> IF n = name THEN File(content) ELSE files[n]]

\* os.remove(name)
Removed(files, name) == [files EXCEPT ![name] = NoEntry]

(***************************************************************************)
(* Command mode: the verbs.  A handler maps the state at the enter key to  *)
(* the state at the next wait.  The getch that holds a one-line message on *)
(* the screen reads one key and drops it: it is part of the handler.  inp  *)
(* holds what the environment answers during the handler: the token counts *)
(* and the answer of the service, how the child process ends, and the text *)
(* typed into the rekey prompt.                                            *)
(***************************************************************************)
EXECUTE == <<"e", "x", "e", "c", "u", "t", "e">>
COMPILE == <<"c", "o", "m", "p", "i", "l", "e">>
RUN == <<"r", "u", "n">>
SAVEPY == <<"s", "a", "v", "e", "p", "y">>
OPEN == <<"o", "p", "e", "n">>
SAVE == <<"s", "a", "v", "e">>
DELETEKEY == <<"d", "e", "l", "e", "t", "e", "k", "e", "y">>
REKEY == <<"r", "e", "k", "e", "y">>
HELP == <<"h", "e", "l", "p">>
EXIT == <<"e", "x", "i", "t">>

\* lines 453-454, then 464-467: back to the main loop
Finish(s) == Scroll([s EXCEPT !.mode = "insert", !.command_str = <<>>])

\* an exception no handler catches leaves run_editor
Crash(s) == [s EXCEPT !.pc = "crashed"]

\* subprocess.run(..., timeout=10)
CHILD_TIMEOUT == 10

\* a child that is launched and ends at once
Exits == [launched |-> TRUE, seconds |-> 0]

\* the text of lines 141-146: what the child wrote, or the message made of the
\* exception when the child cannot be launched or is still running after
\* CHILD_TIMEOUT seconds
ChildOutput(child) ==
    IF ~child.launched THEN "Error executing code: launch error"
    ELSE IF child.seconds > CHILD_TIMEOUT THEN "Error executing code: timed out"
    ELSE "stdout + stderr"

\* a Code Runner that lets the exception of the child pass
RunCodeSectionPropagates(s, code_str, inp) ==
    IF ChildOutput(inp.child) # "stdout + stderr"
    THEN Crash([s EXCEPT !.fs = Written(s.fs, TEMP_FILENAME, Preprocess(code_str))])
    ELSE [s EXCEPT !.fs = Written(s.fs, TEMP_FILENAME, Preprocess(code_str)),
                   !.output = ChildOutput(inp.child),
                   !.msg = "Code Execution Output:",
                   !.pc = "output"]

\* run_code_section up to its wait for the acknowledge key, when the scratch
\* file can be written
RunCodeSection(s, code_str, inp) ==
    [s EXCEPT !.fs = Written(s.fs, TEMP_FILENAME, Preprocess(code_str)),
              !.output = ChildOutput(inp.child),
              !.msg = "Code Execution Output:",
              !.pc = "output"]

DoExecute(s, inp) ==
    LET r == GetResponse(s, DEFAULT_MAX_TOKENS, inp)
        response == Strip(inp.service.text)
        parsed == ParseExecute(response)
        shown == [r EXCEPT !.last_compile_response = Some(response),
                           !.header_text = parsed.header_text,
                           !.code_section = parsed.code_section,
                           !.msg = "Compile Result:"]
    IN  IF r.raised # "" THEN Finish([r EXCEPT !.msg = "Error during execute"])
        ELSE IF parsed.code_section = <<>> THEN Finish(shown)
        ELSE IF ~Writable(s.fs, TEMP_FILENAME)
        THEN Finish([shown EXCEPT !.msg = "Error during execute"])
        ELSE RunCodeSection(shown, parsed.code_section, inp)

\* a compile that forgets the stored reply when the client raises
DoCompileForgets(s, inp) ==
    LET r == GetResponse(s, DEFAULT_MAX_TOKENS, inp)
        response == Strip(inp.service.text)
    IN  IF r.raised # ""
        THEN Finish([r EXCEPT !.last_compile_response = None,
                              !.msg = "Error during compile"])
        ELSE Finish([r EXCEPT !.last_compile_response = Some(response),
                              !.header_text = ParseCompile(response),
                              !.msg = "Compile Result:"])

DoCompile(s, inp) ==
    LET r == GetResponse(s, DEFAULT_MAX_TOKENS, inp)
        response == Strip(inp.service.text)
    IN  IF r.raised # "" THEN Finish([r EXCEPT !.msg = "Error during compile"])
        ELSE Finish([r EXCEPT !.last_compile_response = Some(response),
                              !.header_text = ParseCompile(response),
                              !.msg = "Compile Result:"])

\* a test that takes every stored reply as one that holds code
CodeAvailableAnyReply(s) ==
    /\ s.last_compile_response # None
    /\ s.last_compile_response[1] # <<>>

\* last_compile_response and "Code:" in last_compile_response
CodeAvailable(s) ==
    /\ s.last_compile_response # None
    /\ s.last_compile_response[1] # <<>>
    /\ HasCode(s.last_compile_response[1])

DoRun(s, inp) ==
    IF CodeAvailable(s)
    THEN LET found == [s EXCEPT !.code_section = CodeOf(s.last_compile_response[1])]
         IN  IF ~Writable(s.fs, TEMP_FILENAME) THEN Crash(found)
             ELSE RunCodeSection(found, found.code_section, inp)
    ELSE Finish([s EXCEPT !.msg = "No code section available from last compile."])

DoSavePy(s, args) ==
    IF CodeAvailable(s)
    THEN LET filename == Join(args, <<" ">>)
             text == PreprocessSavePy(CodeOf(s.last_compile_response[1]))
             found == [s EXCEPT !.code_section = text]
         IN  IF ~Writable(s.fs, filename) THEN Crash(found)
             ELSE Finish([found EXCEPT !.fs = Written(s.fs, filename, text),
                                       !.msg = "Python code saved"])
    ELSE Finish([s EXCEPT !.msg = "No code available from last compile."])

\* content.splitlines() or [""]
LinesOf(content) == IF SplitLines(content) = <<>> THEN << <<>> >> ELSE SplitLines(content)

\* an open that starts an empty Document when the file is missing
DoOpenOrNew(s, args) ==
    LET filename == Join(args, <<" ">>)
    IN  IF Exists(s.fs, filename)
        THEN IF ~Readable(s.fs, filename) THEN Crash(s)
             ELSE Finish([s EXCEPT !.buffer = LinesOf(s.fs[filename].content),
                                   !.cursor_y = 0,
                                   !.cursor_x = 0])
        ELSE Finish([s EXCEPT !.buffer = << <<>> >>, !.cursor_y = 0, !.cursor_x = 0,
                              !.msg = "File not found."])

\* an open that leaves the cursor where it is
DoOpenKeepsCursor(s, args) ==
    LET filename == Join(args, <<" ">>)
    IN  IF Exists(s.fs, filename)
        THEN IF ~Readable(s.fs, filename) THEN Crash(s)
             ELSE Finish([s EXCEPT !.buffer = LinesOf(s.fs[filename].content),
                                   !.cursor_y = Min(s.cursor_y, Len(LinesOf(s.fs[filename].content)) - 1),
                                   !.cursor_x = 0])
        ELSE Finish([s EXCEPT !.msg = "File not found."])

DoOpen(s, args) ==
    LET filename == Join(args, <<" ">>)
    IN  IF Exists(s.fs, filename)
        THEN IF ~Readable(s.fs, filename) THEN Crash(s)
             ELSE Finish([s EXCEPT !.buffer = LinesOf(s.fs[filename].content),
                                   !.cursor_y = 0,
                                   !.cursor_x = 0])
        ELSE Finish([s EXCEPT !.msg = "File not found."])

DoSave(s, args) ==
    LET filename == Join(args, <<" ">>)
    IN  IF ~Writable(s.fs, filename) THEN Crash(s)
        ELSE Finish([s EXCEPT !.fs = Written(s.fs, filename, Join(s.buffer, <<NL>>)),
                              !.msg = "Saved"])

DoDeleteKey(s) ==
    IF Exists(s.fs, API_KEY_FILENAME)
    THEN IF ~Readable(s.fs, API_KEY_FILENAME) THEN Crash(s)
         ELSE Finish([s EXCEPT !.fs = Removed(s.fs, API_KEY_FILENAME),
                               !.msg = "API key file deleted.",
                               !.api_key = <<>>])
    ELSE Finish([s EXCEPT !.msg = "No API key file found."])

\* a rekey that changes the key in memory only
DoRekeyInMemory(s, inp) ==
    LET new_key == Strip(inp.new_key)
    IN  IF new_key = <<>> THEN Finish(s)
        ELSE Finish([s EXCEPT !.api_key = new_key,
                              !.msg = "API key updated and saved."])

DoRekey(s, inp) ==
    LET new_key == Strip(inp.new_key)
    IN  IF new_key = <<>> THEN Finish(s)
        ELSE IF ~Writable(s.fs, API_KEY_FILENAME) THEN Crash([s EXCEPT !.api_key = new_key])
        ELSE Finish([s EXCEPT !.api_key = new_key,
                              !.fs = Written(s.fs, API_KEY_FILENAME, new_key),
                              !.msg = "API key updated and saved."])

DoHelp(s) == Finish([s EXCEPT !.msg = "Available commands:"])

DoExit(s) == [s EXCEPT !.pc = "exited"]

DoUnknown(s) == Finish([s EXCEPT !.msg = "Unknown command"])

\* main up to the call of run_editor (lines 483-501): the key is the stripped
\* content of the credential file; when that is empty the key typed into the
\* prompt (inp.new_key) is taken and written to the file
Main(s, inp) ==
    IF Exists(s.fs, API_KEY_FILENAME) /\ ~Readable(s.fs, API_KEY_FILENAME) THEN Crash(s)
    ELSE LET loaded == IF Exists(s.fs, API_KEY_FILENAME)
                       THEN Strip(s.fs[API_KEY_FILENAME].content)
                       ELSE <<>>
             typed == Strip(inp.new_key)
         IN  IF loaded # <<>> THEN [s EXCEPT !.api_key = loaded, !.pc = "loop"]
             ELSE IF ~Writable(s.fs, API_KEY_FILENAME)
             THEN Crash([s EXCEPT !.api_key = typed])
             ELSE [s EXCEPT !.api_key = typed,
                            !.fs = Written(s.fs, API_KEY_FILENAME, typed),
                            !.pc = "loop"]

\* command_str.lstrip(";").strip()
CommandOf(command_str_) == Strip(LStripChar(command_str_, PREFIX))

\* parts[0].lower(), for a command that is not empty
VerbOf(command) == Lower(Split(command)[1])

\* a dispatcher that drops a file verb without a file name like the empty
\* command, with no message
DispatchDropsBareVerb(s, inp) ==
    LET command == CommandOf(s.command_str)
        cmd == VerbOf(command)
        args == Tail(Split(command))
    IN  IF command = <<>> THEN [s EXCEPT !.mode = "insert", !.command_str = <<>>]
        ELSE IF cmd \in {SAVEPY, OPEN, SAVE} /\ args = <<>>
        THEN [s EXCEPT !.mode = "insert", !.command_str = <<>>]
        ELSE IF cmd = EXECUTE THEN DoExecute(s, inp)
        ELSE IF cmd = COMPILE THEN DoCompile(s, inp)
        ELSE IF cmd = RUN THEN DoRun(s, inp)
        ELSE IF cmd = SAVEPY /\ args # <<>> THEN DoSavePy(s, args)
        ELSE IF cmd = OPEN /\ args # <<>> THEN DoOpen(s, args)
        ELSE IF cmd = SAVE /\ args # <<>> THEN DoSave(s, args)
        ELSE IF cmd = DELETEKEY THEN DoDeleteKey(s)
        ELSE IF cmd = REKEY THEN DoRekey(s, inp)
        ELSE IF cmd = HELP THEN DoHelp(s)
        ELSE IF cmd = EXIT THEN DoExit(s)
        ELSE DoUnknown(s)

\* the enter key in command mode (lines 290-454)
Dispatch(s, inp) ==
    LET command == CommandOf(s.command_str)
        cmd == VerbOf(command)
        args == Tail(Split(command))
    IN  IF command = <<>> THEN [s EXCEPT !.mode = "insert", !.command_str = <<>>]
        ELSE IF cmd = EXECUTE THEN DoExecute(s, inp)
        ELSE IF cmd = COMPILE THEN DoCompile(s, inp)
        ELSE IF cmd = RUN THEN DoRun(s, inp)
        ELSE IF cmd = SAVEPY /\ args # <<>> THEN DoSavePy(s, args)
        ELSE IF cmd = OPEN /\ args # <<>> THEN DoOpen(s, args)
        ELSE IF cmd = SAVE /\ args # <<>> THEN DoSave(s, args)
        ELSE IF cmd = DELETEKEY THEN DoDeleteKey(s)
        ELSE IF cmd = REKEY THEN DoRekey(s, inp)
        ELSE IF cmd = HELP THEN DoHelp(s)
        ELSE IF cmd = EXIT THEN DoExit(s)
        ELSE DoUnknown(s)

\* a command mode whose backspace also removes the prefix character
CommandKeyBackspaceAll(s, k, inp) ==
    IF k = NL THEN Dispatch(s, inp)
    ELSE IF k = ESC THEN Scroll([s EXCEPT !.mode = "insert", !.command_str = <<>>])
    ELSE IF k = KEY_BACKSPACE
    THEN IF Len(s.command_str) > 0
         THEN Scroll([s EXCEPT !.command_str = Upto(s.command_str, Len(s.command_str) - 1)])
         ELSE Scroll(s)
    ELSE IF IsChar(k) THEN Scroll([s EXCEPT !.command_str = s.command_str \o <<k>>])
    ELSE Scroll(s)

\* a command mode whose escape key submits the command
CommandKeyEscSubmits(s, k, inp) ==
    IF k = NL \/ k = ESC THEN Dispatch(s, inp)
    ELSE IF k = KEY_BACKSPACE
    THEN IF Len(s.command_str) > 1
         THEN Scroll([s EXCEPT !.command_str = Upto(s.command_str, Len(s.command_str) - 1)])
         ELSE Scroll(s)
    ELSE IF IsChar(k) THEN Scroll([s EXCEPT !.command_str = s.command_str \o <<k>>])
    ELSE Scroll(s)

\* the command-mode branch of the main loop
CommandKey(s, k, inp) ==
    IF k = NL THEN Dispatch(s, inp)
    ELSE IF k = ESC THEN Scroll([s EXCEPT !.mode = "insert", !.command_str = <<>>])
    ELSE IF k = KEY_BACKSPACE
    THEN IF Len(s.command_str) > 1
         THEN Scroll([s EXCEPT !.command_str = Upto(s.command_str, Len(s.command_str) - 1)])
         ELSE Scroll(s)
    ELSE IF IsChar(k) THEN Scroll([s EXCEPT !.command_str = s.command_str \o <<k>>])
    ELSE Scroll(s)

\* one turn of the main loop, for the key k that getch returns
LoopKey(s, k, inp) ==
    IF s.mode = "insert" THEN Scroll(InsertKey(s, k)) ELSE CommandKey(s, k, inp)

\* an output screen that any key closes
OutputKeyAnyKey(s, k) == Finish([s EXCEPT !.pc = "loop"])

\* one key on the output screen of the Code Runner (lines 152-156), and the
\* return of the verb to the main loop
OutputKey(s, k) ==
    IF k = PREFIX THEN Finish([s EXCEPT !.pc = "loop"]) ELSE s

(***************************************************************************)
(* The editing session: the keys of the Text Buffer and the verbs that     *)
(* read and write files.  The keys come from small sets; the Document      *)
(* stays within MaxLines lines of MaxCols characters, and MaxChars         *)
(* characters in all, while it is typed,                                   *)
(* and the command line follows one of the commands of FileCommands (the   *)
(* enter key may come after any prefix of one).                            *)
(***************************************************************************)
FILE_F == <<"f">>
FILE_M == <<"m">>
DIR_D == <<"d">>

InsertChars == {"a"}

EditKeys ==
    {PREFIX, KEY_BACKSPACE, NL, KEY_LEFT, KEY_RIGHT, KEY_UP, KEY_DOWN, KEY_RESIZE}
        \cup InsertChars

RECURSIVE Size(_)
Size(buf) == IF buf = <<>> THEN 0 ELSE Len(Head(buf)) + Size(Tail(buf))

\* the bound on the typed Document
EditAllowed(k) ==
    /\ k = NL => Len(buffer) < MaxLines
    /\ k \in InsertChars =>
          /\ Len(buffer) <= MaxLines
          /\ Len(buffer[cursor_y + 1]) < MaxCols
          /\ Size(buffer) < MaxChars

FileCommands ==
    {<<PREFIX>> \o OPEN \o <<" ">> \o FILE_F,
     <<PREFIX>> \o OPEN \o <<" ">> \o FILE_M,
     <<PREFIX>> \o OPEN \o <<" ">> \o DIR_D,
     <<PREFIX>> \o SAVE \o <<" ">> \o FILE_F,
     <<PREFIX>> \o SAVE \o <<" ">> \o DIR_D,
     <<PREFIX>> \o EXIT,
     <<PREFIX, "x">>}

CommandChars(commands) == UNION {{c[i] : i \in 1..Len(c)} : c \in commands}

IsPrefix(p, t) == Len(p) <= Len(t) /\ SubSeq(t, 1, Len(p)) = p

\* the bound on the typed command line
TypeAllowed(k, commands) ==
    k \in CommandChars(commands) => \E c \in commands : IsPrefix(command_str \o <<k>>, c)

\* no answer of the environment: the verbs of FileCommands ask for none
NoInput ==
    [system_tokens |-> 0, user_tokens |-> 0, service |-> [ok |-> FALSE, text |-> <<>>],
     child |-> Exits, new_key |-> <<>>]

InitFiles(f, key_text) ==
    [n \in {FILE_F, FILE_M, DIR_D, API_KEY_FILENAME, TEMP_FILENAME} |->
        CASE n = FILE_F -> f
          [] n = DIR_D -> Directory
          [] n = API_KEY_FILENAME -> File(key_text)
          [] OTHER -> NoEntry]

\* run_editor before its first getch (lines 173-200), but for the mode, the
\* window and the key that main has loaded
InitEditor ==
    /\ buffer = << <<>> >>
    /\ cursor_y = 0
    /\ cursor_x = 0
    /\ scroll_offset = 0
    /\ pc = "loop"
    /\ msg = ""
    /\ last_compile_response = None
    /\ header_text = <<>>
    /\ code_section = <<>>
    /\ output = ""
    /\ system_tokens = 0
    /\ user_tokens = 0
    /\ max_tokens = 0
    /\ request = None
    /\ raised = ""

Init ==
    /\ InitEditor
    /\ mode = "insert"
    /\ command_str = <<>>
    /\ editor_height = MaxHeight
    /\ api_key = <<"k">>
    /\ env_api_key = <<>>
    /\ fs = InitFiles(NoEntry, <<"k">>)

Edit ==
    /\ pc = "loop"
    /\ mode = "insert"
    /\ \E k \in EditKeys : EditAllowed(k) /\ Becomes(LoopKey(State, k, NoInput))

TypeCommand ==
    /\ pc = "loop"
    /\ mode = "command"
    /\ \E k \in {ESC, KEY_BACKSPACE, KEY_RESIZE} \cup CommandChars(FileCommands) :
          TypeAllowed(k, FileCommands) /\ Becomes(LoopKey(State, k, NoInput))

Submit ==
    /\ pc = "loop"
    /\ mode = "command"
    /\ Becomes(LoopKey(State, NL, NoInput))

Next == Edit \/ TypeCommand \/ Submit

Spec == Init /\ [][Next]_vars

(***************************************************************************)
(* Properties of the editing session.                                      *)
(***************************************************************************)
\* the command line holds a command with this verb and at least one argument
CommandIs(verb) ==
    /\ CommandOf(command_str) # <<>>
    /\ VerbOf(CommandOf(command_str)) = verb
    /\ Len(Split(CommandOf(command_str))) > 1

\* the file name the command line names: " ".join(args)
CommandFile == Join(Tail(Split(CommandOf(command_str))), <<" ">>)

\* C1: in every state the Document has at least one line, the cursor row is
\* an index into it, and the cursor column lies in 0..length of that line.
C1_CursorInDocument ==
    /\ Len(buffer) >= 1
    /\ cursor_y \in 0..(Len(buffer) - 1)
    /\ cursor_x \in 0..Len(buffer[cursor_y + 1])

\* C1 witness: a file was saved and opened, and the Document was edited to two
\* lines of different lengths with the cursor at the end of the longer one
C1_Witness ==
    /\ mode = "insert"
    /\ msg = "Saved"
    /\ buffer = << <<>>, <<"a", "a">> >>
    /\ cursor_y = 1
    /\ cursor_x = 2

\* C2 (as claimed): an open of the file f, dispatched while f holds what save f
\* writes for the Document, gives back the same Document.
C2_SaveThenOpen ==
    [][(/\ Submit
        /\ CommandIs(OPEN)
        /\ CommandFile = FILE_F
        /\ fs[FILE_F] = File(Join(buffer, <<NL>>)))
       => buffer' = buffer]_vars

\* C3 (as claimed): the enter key in command mode, for every command but
\* exit, leads to insert mode with an empty command line.
C3_EnterLeadsToInsert ==
    [][(/\ Submit
        /\ CommandOf(command_str) # <<>> => VerbOf(CommandOf(command_str)) # EXIT)
       => (mode' = "insert" /\ command_str' = <<>>)]_vars

\* C4 (as claimed): the session ends only by the exit verb.
C4_EndsOnlyByExit ==
    pc # "loop" =>
        /\ pc = "exited"
        /\ CommandOf(command_str) # <<>>
        /\ VerbOf(CommandOf(command_str)) = EXIT

\* C5: an open of a file that does not exist leaves Document and cursor as
\* they were, reports that the file was not found, and leads to insert mode.
C5_OpenMissingFile ==
    [][(Submit /\ CommandIs(OPEN) /\ ~Exists(fs, CommandFile))
       => /\ buffer' = buffer
          /\ cursor_y' = cursor_y
          /\ cursor_x' = cursor_x
          /\ msg' = "File not found."
          /\ mode' = "insert"
          /\ pc' = "loop"]_vars

\* C5 witness: a Document of two lines, the cursor off the origin, after the
\* open of a missing file
C5_Witness ==
    /\ msg = "File not found."
    /\ mode = "insert"
    /\ Len(buffer) = 2
    /\ cursor_y = 1
    /\ cursor_x = 1

\* C6: in insert mode the left arrow and the backspace key at row 0, column 0,
\* and the right arrow at the end of the last row, change nothing.
C6_BoundaryKeys ==
    (pc = "loop" /\ mode = "insert") =>
        /\ (cursor_y = 0 /\ cursor_x = 0) =>
              /\ LoopKey(State, KEY_LEFT, NoInput) = State
              /\ LoopKey(State, KEY_BACKSPACE, NoInput) = State
        /\ (cursor_y = Len(buffer) - 1 /\ cursor_x = Len(buffer[Len(buffer)])) =>
              LoopKey(State, KEY_RIGHT, NoInput) = State

\* C6 witness: the cursor at row 0, column 0 of a Document of two lines that
\* are not empty
C6_Witness ==
    /\ pc = "loop"
    /\ mode = "insert"
    /\ buffer = << <<"a">>, <<"a">> >>
    /\ cursor_y = 0
    /\ cursor_x = 0

(***************************************************************************)
(* The Response Parser on bounded replies: the editor stands in command    *)
(* mode with execute or compile typed, the enter key is pressed, and the   *)
(* service answers with a reply of Replies.                                *)
(***************************************************************************)
FieldAtoms == {" ", NL, "x"}
ParseAtoms == {STATUS, DESC, NEXT, CODE, NL, " ", "x"}

\* a reply of the four labels in order, each at a line start
Reply(pre, status, desc, next, code) ==
    pre \o <<STATUS>> \o status \o <<NL, DESC>> \o desc \o <<NL, NEXT>> \o next
        \o <<NL, CODE>> \o code

\* "Status: ok\nDesc: prints hi\nNext: None\nCode: print('hi')"
ExampleReply ==
    Reply(<<>>, <<" ", "o", "k">>,
          <<" ", "p", "r", "i", "n", "t", "s", " ", "h", "i">>,
          <<" ", "N", "o", "n", "e">>,
          <<" ", "p", "r", "i", "n", "t", "(", "'", "h", "i", "'", ")">>)

\* a reply with a line before the first label
PreambleReply == Reply(<<"x", NL>>, <<" ", "x">>, <<"x", " ">>, <<NL>>, <<NL, "x">>)

Replies ==
    {Reply(<<>>, status, desc, next, code) :
        status \in TextsUpTo(FieldAtoms, MaxHead),
        desc \in TextsUpTo(FieldAtoms, MaxHead),
        next \in TextsUpTo(FieldAtoms, MaxHead),
        code \in TextsUpTo(FieldAtoms, MaxField)}
      \cup TextsUpTo(ParseAtoms, MaxReply)
      \cup {ExampleReply, PreambleReply}

\* the answer of the service is the reply r; the prompts fit the context
ReplyInput(r) ==
    [system_tokens |-> 300, user_tokens |-> 10, service |-> [ok |-> TRUE, text |-> r],
     child |-> Exits, new_key |-> <<>>]

InitParse ==
    /\ InitEditor
    /\ mode = "command"
    /\ command_str \in {<<PREFIX>> \o EXECUTE, <<PREFIX>> \o COMPILE}
    /\ editor_height = MaxHeight
    /\ api_key = <<"k">>
    /\ env_api_key = <<>>
    /\ fs = InitFiles(NoEntry, <<"k">>)

ParseReply ==
    /\ pc = "loop"
    /\ mode = "command"
    /\ \E r \in Replies : Becomes(LoopKey(State, NL, ReplyInput(r)))

SpecParse == InitParse /\ [][ParseReply]_vars

\* the number of atoms a of t
RECURSIVE Count(_, _)
Count(t, a) ==
    IF t = <<>> THEN 0 ELSE (IF Head(t) = a THEN 1 ELSE 0) + Count(Tail(t), a)

\* the atom at position i of t starts a line
AtLineStart(t, i) == i = 1 \/ t[i - 1] = NL

\* t consists of the four labels, once each, in order, each at a line start
FourLabels(t) ==
    /\ \A a \in {STATUS, DESC, NEXT, CODE} :
          Count(t, a) = 1 /\ AtLineStart(t, FirstAt(t, a))
    /\ FirstAt(t, STATUS) < FirstAt(t, DESC)
    /\ FirstAt(t, DESC) < FirstAt(t, NEXT)
    /\ FirstAt(t, NEXT) < FirstAt(t, CODE)

\* the text of t between the atom a and the atom b
Between(t, a, b) == SubSeq(t, FirstAt(t, a) + 1, FirstAt(t, b) - 1)

\* the text of t behind the atom a
Behind(t, a) == SubSeq(t, FirstAt(t, a) + 1, Len(t))

\* C7: for a reply of the four labels in order, each at a line start, the
\* execute verb shows the trimmed texts between the labels as status,
\* description and next steps and takes the trimmed text behind Code: as the
\* code; for the reply "Status: ok\nDesc: prints hi\nNext: None\nCode:
\* print('hi')" these are ok, prints hi, None and print('hi').
C7_StrictParse ==
    [][(/\ pc = "loop"
        /\ mode = "command"
        /\ command_str = <<PREFIX>> \o EXECUTE
        /\ last_compile_response' # None
        /\ FourLabels(last_compile_response'[1]))
       => LET reply == last_compile_response'[1]
          IN  /\ header_text' = HeaderOf(Strip(Between(reply, STATUS, DESC)),
                                         Strip(Between(reply, DESC, NEXT)),
                                         Strip(Between(reply, NEXT, CODE)))
              /\ code_section' = Strip(Behind(reply, CODE))
              /\ reply = ExampleReply =>
                    /\ header_text' = HeaderOf(<<"o", "k">>,
                                         <<"p", "r", "i", "n", "t", "s", " ", "h", "i">>,
                                         <<"N", "o", "n", "e">>)
                    /\ code_section' = <<"p", "r", "i", "n", "t", "(", "'", "h", "i", "'", ")">>]_vars

\* C7 witness: the execute verb has parsed the example reply and runs its code
C7_Witness ==
    /\ last_compile_response = Some(ExampleReply)
    /\ code_section = <<"p", "r", "i", "n", "t", "(", "'", "h", "i", "'", ")">>
    /\ pc = "output"

\* C8: for a reply without the Code: marker neither execute nor compile
\* fails; both show the whole trimmed reply as header text, and execute takes
\* the empty text as code and runs nothing.
C8_NoCodeMarker ==
    [][(/\ pc = "loop"
        /\ mode = "command"
        /\ command_str \in {<<PREFIX>> \o EXECUTE, <<PREFIX>> \o COMPILE}
        /\ last_compile_response' # None
        /\ ~HasCode(last_compile_response'[1]))
       => /\ header_text' = Strip(last_compile_response'[1])
          /\ command_str = <<PREFIX>> \o EXECUTE => code_section' = <<>>
          /\ msg' = "Compile Result:"
          /\ pc' = "loop"
          /\ mode' = "insert"]_vars

\* C8 witness: a reply with two labels and no Code: marker was shown whole
C8_Witness ==
    /\ last_compile_response = Some(<<STATUS, "x", NL, DESC>>)
    /\ header_text = <<STATUS, "x", NL, DESC>>
    /\ code_section = <<>>
    /\ msg = "Compile Result:"

(***************************************************************************)
(* The Code Runner on bounded code texts: the last reply holds a code      *)
(* text of CodeTexts behind its Code: marker, run is typed, the enter key  *)
(* is pressed, and the output screen is acknowledged.                      *)
(***************************************************************************)
CodeAtoms == {"x", " ", NL, STATUS, CODE, FENCE_PY, FENCE}

CodeTexts == TextsUpTo(CodeAtoms, MaxCode)

\* the child cannot be launched, or it runs for some seconds on either
\* side of the timeout
ChildRuns ==
    {[launched |-> FALSE, seconds |-> 0]}
        \cup {[launched |-> TRUE, seconds |-> n] :
                  n \in {0, CHILD_TIMEOUT - 1, CHILD_TIMEOUT + 1}}

\* the child process ends as child says; nothing else is asked
ChildInput(child) == [NoInput EXCEPT !.child = child]

InitPre ==
    /\ buffer = << <<>> >>
    /\ cursor_y = 0
    /\ cursor_x = 0
    /\ scroll_offset = 0
    /\ pc = "loop"
    /\ msg = "Compile Result:"
    /\ last_compile_response \in {Some(<<CODE>> \o t) : t \in CodeTexts}
    /\ header_text = <<>>
    /\ code_section = <<>>
    /\ output = ""
    /\ system_tokens = 300
    /\ user_tokens = 10
    /\ max_tokens = DEFAULT_MAX_TOKENS
    /\ request = Some(MAX_CONTEXT_TOKENS - 300 - 10 - 2 * MESSAGE_OVERHEAD - CONTEXT_MARGIN)
    /\ raised = ""
    /\ mode = "command"
    /\ command_str = <<PREFIX>> \o RUN
    /\ editor_height = MaxHeight
    /\ api_key = <<"k">>
    /\ env_api_key = <<>>
    /\ fs = InitFiles(NoEntry, <<"k">>)

RunVerb ==
    /\ pc = "loop"
    /\ mode = "command"
    /\ \E child \in ChildRuns : Becomes(LoopKey(State, NL, ChildInput(child)))

Acknowledge ==
    /\ pc = "output"
    /\ \E k \in {PREFIX, "x", KEY_RESIZE} : Becomes(OutputKey(State, k))

NextPre == RunVerb \/ Acknowledge

SpecPre == InitPre /\ [][NextPre]_vars

\* C9 (as claimed): the preprocessing is idempotent: the text the Code
\* Runner wrote to the scratch file is what preprocessing makes of that text.
C9_PreprocessIdempotent ==
    pc = "output" =>
        /\ fs[TEMP_FILENAME].content = Preprocess(code_section)
        /\ Preprocess(fs[TEMP_FILENAME].content) = fs[TEMP_FILENAME].content

(***************************************************************************)
(* The Completion Client on bounded token counts: get_response is called   *)
(* with token counts around the limits, a requested budget and an answer   *)
(* of the service.                                                         *)
(***************************************************************************)
SystemTokenCounts == {0, 300}

UserTokenCounts ==
    (0..TokenSlack)
      \cup ((MAX_CONTEXT_TOKENS - 300 - 2 * TokenSlack)..(MAX_CONTEXT_TOKENS + TokenSlack))

RequestedBudgets == {0, 1, 100, DEFAULT_MAX_TOKENS, MAX_CONTEXT_TOKENS + 1}

ClientInput(st, ut, ok) ==
    [system_tokens |-> st, user_tokens |-> ut,
     service |-> [ok |-> ok, text |-> <<STATUS, "x">>],
     child |-> Exits, new_key |-> <<>>]

InitClient ==
    /\ InitEditor
    /\ mode = "insert"
    /\ command_str = <<>>
    /\ editor_height = MaxHeight
    /\ api_key = <<"k">>
    /\ env_api_key = <<>>
    /\ fs = InitFiles(NoEntry, <<"k">>)

\* one call on a client that has not been called yet
CallGetResponse ==
    /\ request = None
    /\ raised = ""
    /\ \E st \in SystemTokenCounts, ut \in UserTokenCounts, mt \in RequestedBudgets,
          ok \in BOOLEAN :
           Becomes(GetResponse(State, mt, ClientInput(st, ut, ok)))

SpecClient == InitClient /\ [][CallGetResponse]_vars

\* C10: when the token counts of system instruction and prompt add up to the
\* context window or more, get_response raises and issues no request.
C10_RejectsBeforeRequest ==
    system_tokens + user_tokens >= MAX_CONTEXT_TOKENS =>
        /\ request = None
        /\ raised = "ValueError: input exceeds context length"

\* C10 witness: a call with counts that add up to exactly the context window
\* was rejected
C10_Witness ==
    /\ system_tokens + user_tokens = MAX_CONTEXT_TOKENS
    /\ system_tokens = 300
    /\ raised # ""
    /\ request = None

(***************************************************************************)
(* More properties of the editing session (the specification Spec).        *)
(***************************************************************************)
\* C11: in command mode the command line is not empty and starts with the
\* prefix character, the backspace key leaves it so and leaves a command
\* line of the prefix character alone as it is; in insert mode the command
\* line is empty.
C11_CommandLinePrefix ==
    /\ mode = "insert" => command_str = <<>>
    /\ mode = "command" =>
          /\ command_str # <<>>
          /\ Head(command_str) = PREFIX
          /\ pc = "loop" =>
                LET b == LoopKey(State, KEY_BACKSPACE, NoInput)
                IN  /\ b.mode = "command"
                    /\ b.command_str # <<>>
                    /\ Head(b.command_str) = PREFIX
                    /\ Len(b.command_str) >= Len(command_str) - 1
                    /\ command_str = <<PREFIX>> => b = State

\* C11 witness: command mode was entered again after a verb, and the command
\* line is the prefix character alone
C11_Witness ==
    /\ pc = "loop"
    /\ mode = "command"
    /\ command_str = <<PREFIX>>
    /\ msg = "File not found."

\* C12: the escape key in command mode leads to insert mode with an empty
\* command line and does nothing else: Document, cursor, stored reply, key
\* and files stay as they are, whatever the command line holds.
C12_EscapeAborts ==
    (pc = "loop" /\ mode = "command") =>
        LoopKey(State, ESC, NoInput) = [State EXCEPT !.mode = "insert", !.command_str = <<>>]

\* C12 witness: the command line holds a whole save command over a Document
\* that is not empty
C12_Witness ==
    /\ pc = "loop"
    /\ mode = "command"
    /\ command_str = <<PREFIX>> \o SAVE \o <<" ">> \o FILE_F
    /\ buffer = << <<"a">>, <<"a">> >>
    /\ ~Exists(fs, FILE_F)

\* no line of the Document holds a line boundary
NoLineBreaks(buf) == \A i \in 1..Len(buf) : \A j \in 1..Len(buf[i]) : buf[i][j] # NL

\* the lines of buf are the lines of the file text content: joined by line
\* boundaries they give content, or content without its final line boundary
IsLinesOf(buf, content) ==
    /\ NoLineBreaks(buf)
    /\ IF content = <<>> THEN buf = << <<>> >>
       ELSE \/ Join(buf, <<NL>>) = content
            \/ Join(buf, <<NL>>) \o <<NL>> = content

\* C15: an open of an existing file makes the Document the lines of the file
\* (the one empty line for an empty file), puts the cursor at row 0, column 0,
\* and the scroll offset is 0 when the editor is drawn next.
C15_OpenExistingFile ==
    [][(Submit /\ CommandIs(OPEN) /\ Readable(fs, CommandFile))
       => /\ IsLinesOf(buffer', fs[CommandFile].content)
          /\ cursor_y' = 0
          /\ cursor_x' = 0
          /\ scroll_offset' = 0
          /\ mode' = "insert"
          /\ pc' = "loop"]_vars

\* C15 witness: the file f holds two lines, and the Document holds them with
\* the cursor at the origin and the window at the top
C15_Witness ==
    /\ pc = "loop"
    /\ mode = "insert"
    /\ fs[FILE_F] = File(<<"a", NL, "a">>)
    /\ buffer = << <<"a">>, <<"a">> >>
    /\ cursor_y = 0
    /\ cursor_x = 0
    /\ scroll_offset = 0

KeyCommands ==
    {<<PREFIX>> \o COMPILE, <<PREFIX>> \o EXECUTE, <<PREFIX>> \o REKEY,
     <<PREFIX>> \o DELETEKEY}

\* the credential file at startup: absent, empty, or a key
KeyFiles == {NoEntry, File(<<>>), File(<<"k">>)}

\* what is typed into a key prompt
KeyTexts == {<<>>, <<"j">>, <<" ", "j">>}

\* the value of OPENAI_API_KEY: unset, or a key
EnvKeys == {<<>>, <<"e">>}

KeyReplies == {<<STATUS, "x">>, <<STATUS, "x", NL, CODE, "x">>}

\* the counts tiktoken gives: a prompt that fits, one that fills the window
KeyTokenCounts == {10, MAX_CONTEXT_TOKENS}

KeyInputs ==
    {[system_tokens |-> 300, user_tokens |-> ut, service |-> [ok |-> ok, text |-> r],
      child |-> Exits, new_key |-> nk] :
        ut \in KeyTokenCounts, ok \in BOOLEAN, r \in KeyReplies, nk \in KeyTexts}

InitKey ==
    /\ buffer = << <<>> >>
    /\ cursor_y = 0
    /\ cursor_x = 0
    /\ scroll_offset = 0
    /\ editor_height = MaxHeight
    /\ mode = "insert"
    /\ command_str = <<>>
    /\ pc = "start"
    /\ msg = ""
    /\ last_compile_response = None
    /\ api_key = <<>>
    /\ env_api_key \in EnvKeys
    /\ fs \in {[InitFiles(NoEntry, <<>>) EXCEPT ![API_KEY_FILENAME] = kf] : kf \in KeyFiles}
    /\ header_text = <<>>
    /\ code_section = <<>>
    /\ output = ""
    /\ system_tokens = 0
    /\ user_tokens = 0
    /\ max_tokens = 0
    /\ request = None
    /\ raised = ""

Startup ==
    /\ pc = "start"
    /\ \E inp \in KeyInputs : Becomes(Main(State, inp))

OpenCommandLine ==
    /\ pc = "loop"
    /\ mode = "insert"
    /\ Becomes(LoopKey(State, PREFIX, NoInput))

TypeKeyCommand ==
    /\ pc = "loop"
    /\ mode = "command"
    /\ \E k \in {ESC, KEY_BACKSPACE} \cup CommandChars(KeyCommands) :
          TypeAllowed(k, KeyCommands) /\ Becomes(LoopKey(State, k, NoInput))

SubmitKeyCommand ==
    /\ pc = "loop"
    /\ mode = "command"
    /\ \E inp \in KeyInputs : Becomes(LoopKey(State, NL, inp))

NextKey == Startup \/ OpenCommandLine \/ TypeKeyCommand \/ SubmitKeyCommand \/ Acknowledge

SpecKey == InitKey /\ [][NextKey]_vars

(***************************************************************************)
(* Properties of the session of the key and the completion verbs.          *)
(***************************************************************************)
\* the enter key can be pressed on a command with this verb
AtVerb(verb) ==
    /\ pc = "loop"
    /\ mode = "command"
    /\ CommandOf(command_str) # <<>>
    /\ VerbOf(CommandOf(command_str)) = verb

ErrorMessages == {"Error during compile", "Error during execute"}

\* C13: when the client raises during compile or execute (no key, no room
\* for the tokens, a failing request), the stored reply stays what it was and
\* an error message is shown.
C13_FailureKeepsResult ==
    (AtVerb(COMPILE) \/ AtVerb(EXECUTE)) =>
        \A inp \in KeyInputs :
            LET t == LoopKey(State, NL, inp)
            IN  t.raised # "" =>
                    /\ t.last_compile_response = last_compile_response
                    /\ t.msg \in ErrorMessages
                    /\ t.pc = "loop"
                    /\ t.mode = "insert"

\* C13 witness: a reply is stored and a later compile has failed with a
\* failing request
C13_Witness ==
    /\ pc = "loop"
    /\ last_compile_response = Some(<<STATUS, "x", NL, CODE, "x">>)
    /\ msg = "Error during compile"
    /\ raised = "service error"

\* the key the credential file holds, the empty key when there is no file
KeyOnDisk ==
    IF Readable(fs, API_KEY_FILENAME) THEN fs[API_KEY_FILENAME].content ELSE <<>>

C17_NoKeyNoRequest ==
    ((AtVerb(COMPILE) \/ AtVerb(EXECUTE)) /\ api_key = <<>> /\ env_api_key = <<>>) =>
        \A inp \in KeyInputs :
            LET t == LoopKey(State, NL, inp)
            IN  /\ t.raised = "ValueError: API key must be provided"
                /\ t.request = None
                /\ t.last_compile_response = last_compile_response
                /\ t.msg \in ErrorMessages

\* C17 witness: a reply was stored, the key file was deleted, and an execute
\* has failed for the missing key
C17_Witness ==
    /\ pc = "loop"
    /\ api_key = <<>>
    /\ env_api_key = <<>>
    /\ ~Exists(fs, API_KEY_FILENAME)
    /\ last_compile_response # None
    /\ msg = "Error during execute"
    /\ raised = "ValueError: API key must be provided"
    /\ request = None

(***************************************************************************)
(* The session of the generated code: with a key loaded, compile, execute, *)
(* run and savepy are typed and submitted, and the output screen of the    *)
(* Code Runner is acknowledged; the service answers with a reply of        *)
(* RunReplies or fails.  The file verbs can be submitted without a file    *)
(* name.  The Document stays empty.                                        *)
(***************************************************************************)
RunCommands ==
    {<<PREFIX>> \o COMPILE, <<PREFIX>> \o EXECUTE, <<PREFIX>> \o RUN,
     <<PREFIX>> \o SAVEPY \o <<" ">> \o FILE_F, <<PREFIX>> \o OPEN}

\* a reply whose status text holds the text Code:
NestedCodeReply == Reply(<<>>, <<CODE, "y">>, <<>>, <<>>, <<"x">>)

\* replies without a Code: marker, with one, with an empty code section, with
\* all four labels, and with the text Code: twice
RunReplies ==
    {<<STATUS, "x">>,
     <<CODE, "x">>,
     <<STATUS, "x", NL, CODE>>,
     Reply(<<>>, <<"x">>, <<"x">>, <<"x">>, <<"x">>),
     <<CODE, "x", NL, CODE, "y">>,
     NestedCodeReply}

RunInputs ==
    {[system_tokens |-> 300, user_tokens |-> 10, service |-> [ok |-> ok, text |-> r],
      child |-> Exits, new_key |-> <<>>] :
        ok \in BOOLEAN, r \in RunReplies}

TypeRunCommand ==
    /\ pc = "loop"
    /\ mode = "command"
    /\ \E k \in {ESC, KEY_BACKSPACE} \cup CommandChars(RunCommands) :
          TypeAllowed(k, RunCommands) /\ Becomes(LoopKey(State, k, NoInput))

SubmitRunCommand ==
    /\ pc = "loop"
    /\ mode = "command"
    /\ \E inp \in RunInputs : Becomes(LoopKey(State, NL, inp))

NextRun == OpenCommandLine \/ TypeRunCommand \/ SubmitRunCommand \/ Acknowledge

SpecRun == Init /\ [][NextRun]_vars

(***************************************************************************)
(* Properties of the session of the generated code.                        *)
(***************************************************************************)
\* no reply is stored, or the stored reply holds no Code: marker
NoCodeStored ==
    \/ last_compile_response = None
    \/ Count(last_compile_response[1], CODE) = 0

\* C14: while no reply is stored, or the stored reply holds no Code: marker,
\* run does not start the Code Runner and savepy writes no file: each shows
\* that no code is available and changes nothing else.
C14_NoCodeNoEffect ==
    /\ (AtVerb(RUN) /\ NoCodeStored) =>
          \A inp \in RunInputs :
              LoopKey(State, NL, inp) =
                  [State EXCEPT !.mode = "insert", !.command_str = <<>>,
                                !.msg = "No code section available from last compile."]
    /\ (AtVerb(SAVEPY) /\ Len(Split(CommandOf(command_str))) > 1 /\ NoCodeStored) =>
          \A inp \in RunInputs :
              LoopKey(State, NL, inp) =
                  [State EXCEPT !.mode = "insert", !.command_str = <<>>,
                                !.msg = "No code available from last compile."]

\* C14 witness: the stored reply holds no Code: marker, run has shown
\* that no code is available, and no scratch file was written
C14_Witness ==
    /\ pc = "loop"
    /\ mode = "insert"
    /\ last_compile_response = Some(<<STATUS, "x">>)
    /\ msg = "No code section available from last compile."
    /\ ~Exists(fs, TEMP_FILENAME)

\* C19 (as claimed): the code run hands to the Code Runner is the code section
\* that the parse of execute takes from the stored reply.
C19_RunUsesParsedCode ==
    [][(AtVerb(RUN) /\ pc' = "output")
       => /\ code_section' = ParseExecute(last_compile_response[1]).code_section
          /\ fs'[TEMP_FILENAME] =
                File(Preprocess(ParseExecute(last_compile_response[1]).code_section))]_vars

(***************************************************************************)
(* More properties of the Response Parser (the specification SpecParse).   *)
(***************************************************************************)
\* the text of t before the first atom a
Before(t, a) == SubSeq(t, 1, FirstAt(t, a) - 1)

\* C20 (as claimed): for a reply that the strict pattern does not match and
\* that holds the Code: marker, execute takes the trimmed text before the
\* marker as header text and the trimmed text behind it, up to the end of the
\* reply, as code.
C20_FallbackToEnd ==
    [][(/\ pc = "loop"
        /\ mode = "command"
        /\ command_str = <<PREFIX>> \o EXECUTE
        /\ last_compile_response' # None
        /\ Count(last_compile_response'[1], CODE) > 0
        /\ ~StrictSearch(last_compile_response'[1]).matched)
       => /\ header_text' = Strip(Before(last_compile_response'[1], CODE))
          /\ code_section' = Strip(Behind(last_compile_response'[1], CODE))]_vars

(***************************************************************************)
(* More properties of the Code Runner (the specification SpecPre).         *)
(***************************************************************************)
\* the line begins with one of the four labels
BeginsWithLabel(line) == line # <<>> /\ Head(line) \in {STATUS, DESC, NEXT, CODE}

\* C21 (as claimed): every line of the code (its fence markers removed) that
\* is not empty stands at its line number in the scratch file, as it is or
\* commented out, and commented out when it begins with Status:, Desc:, Next:
\* or Code:.
C21_LabelLinesCommented ==
    pc = "output" =>
        LET before == SplitLines(Remove(Remove(code_section, FENCE_PY), FENCE))
            after == SplitLines(fs[TEMP_FILENAME].content)
        IN  \A i \in 1..Len(before) :
                before[i] # <<>> =>
                    /\ i <= Len(after)
                    /\ after[i] \in {before[i], <<"#">> \o before[i]}
                    /\ BeginsWithLabel(before[i]) => after[i] = <<"#">> \o before[i]

\* C22: for every reply compile and execute show the same header text: the
\* header text either verb shows for a reply is the one the parse of compile
\* and the one the parse of execute give for it, whether the strict pattern
\* matches or not.
C22_SameHeader ==
    [][(/\ pc = "loop"
        /\ mode = "command"
        /\ command_str \in {<<PREFIX>> \o EXECUTE, <<PREFIX>> \o COMPILE}
        /\ last_compile_response' # None)
       => /\ header_text' = ParseCompile(last_compile_response'[1])
          /\ header_text' = ParseExecute(last_compile_response'[1]).header_text]_vars

\* C22 witness: execute has shown the header text of a reply that the strict
\* pattern does not match, and runs its code
C22_Witness ==
    /\ pc = "output"
    /\ last_compile_response = Some(<<"x", " ", CODE, "x">>)
    /\ header_text = <<"x">>
    /\ code_section = <<"x">>

(***************************************************************************)
(* More properties of the session of the generated code (SpecRun).         *)
(***************************************************************************)
\* keys other than the acknowledge key
OtherKeys == WideKeys \cup {NL, ESC, " ", "x", "q"}

\* C23: on the output screen of the Code Runner every key but ; changes
\* nothing, and ; leads to the main loop in insert mode, with Document
\* and cursor as they were.
C23_OutputUntilAcknowledged ==
    pc = "output" =>
        /\ \A k \in OtherKeys : OutputKey(State, k) = State
        /\ LET t == OutputKey(State, PREFIX)
           IN  /\ t.pc = "loop"
               /\ t.mode = "insert"
               /\ t.command_str = <<>>
               /\ t.buffer = buffer
               /\ t.cursor_y = cursor_y
               /\ t.cursor_x = cursor_x

\* C23 witness: the output of a run was acknowledged
C23_Witness ==
    /\ pc = "loop"
    /\ mode = "insert"
    /\ msg = "Code Execution Output:"
    /\ Exists(fs, TEMP_FILENAME)
    /\ last_compile_response = Some(<<CODE, "x">>)

(***************************************************************************)
(* More properties of the Code Runner on bounded code texts (SpecPre).     *)
(***************************************************************************)
\* C25: whether the child cannot be launched, is still running after the
\* timeout of 10 seconds, or ends in time, run shows an output screen:
\* the error as a text in the first two cases, what the child wrote in the
\* third; the session goes on.
C25_ChildFailureShown ==
    /\ CHILD_TIMEOUT = 10
    /\ AtVerb(RUN) =>
          \A child \in ChildRuns :
              LET t == LoopKey(State, NL, ChildInput(child))
              IN  /\ t.pc = "output"
                  /\ t.msg = "Code Execution Output:"
                  /\ ~child.launched => t.output = "Error executing code: launch error"
                  /\ (child.launched /\ child.seconds > 10) =>
                        t.output = "Error executing code: timed out"
                  /\ (child.launched /\ child.seconds < 10) => t.output = "stdout + stderr"
                  /\ OutputKey(t, PREFIX).pc = "loop"
                  /\ OutputKey(t, PREFIX).mode = "insert"

\* C25 witness: the child timed out, the message was shown and acknowledged,
\* and the editor is back in insert mode
C25_Witness ==
    /\ pc = "loop"
    /\ mode = "insert"
    /\ output = "Error executing code: timed out"
    /\ msg = "Code Execution Output:"

(***************************************************************************)
(* More properties of the Completion Client (the specification             *)
(* SpecClient).                                                            *)
(***************************************************************************)
\* the input tokens of the last call: both texts and the overhead of the two
\* messages
InputTokens == system_tokens + user_tokens + 2 * MESSAGE_OVERHEAD

\* the room the input leaves in the context window behind the safety margin
Headroom == MAX_CONTEXT_TOKENS - InputTokens - CONTEXT_MARGIN

\* C24: the budget of a request that get_response has issued is the smaller
\* one of the requested budget and the context window less the input tokens
\* and the safety margin; it is at least 1, and input tokens, budget and
\* margin together do not exceed the context window.  A call whose budget
\* would be below 1 has raised and issued no request.
C24_BudgetClamped ==
    /\ request # None =>
          /\ request[1] = IF max_tokens < Headroom THEN max_tokens ELSE Headroom
          /\ request[1] >= 1
          /\ InputTokens + request[1] + CONTEXT_MARGIN <= MAX_CONTEXT_TOKENS
    /\ ((request # None \/ raised # "") /\ (max_tokens < 1 \/ Headroom < 1)) =>
          /\ request = None
          /\ raised \in {"ValueError: input exceeds context length",
                         "ValueError: not enough tokens left"}

\* C24 witness: a request went out with the default budget cut down to the
\* one token that was left
C24_Witness ==
    /\ request = Some(1)
    /\ max_tokens = DEFAULT_MAX_TOKENS
    /\ raised = ""
    /\ InputTokens + 1 + CONTEXT_MARGIN = MAX_CONTEXT_TOKENS

(***************************************************************************)
(* Inverse keys of the editing session (the specification Spec).           *)
(***************************************************************************)
\* C26: in insert mode the enter key followed by the backspace key, and a
\* printable character followed by the backspace key, give back the Document
\* and the cursor there were before the two keys.
C26_BackspaceUndoes ==
    (pc = "loop" /\ mode = "insert") =>
        \A k \in {NL, PREFIX} \cup InsertChars :
            LET after == LoopKey(LoopKey(State, k, NoInput), KEY_BACKSPACE, NoInput)
            IN  /\ after.buffer = buffer
                /\ after.cursor_y = cursor_y
                /\ after.cursor_x = cursor_x

\* C26 witness: the cursor behind the last character of the first of two
\* lines, where the enter key opens a line between the two and a character
\* goes to the end of the first
C26_Witness ==
    /\ pc = "loop"
    /\ mode = "insert"
    /\ buffer = << <<"a">>, <<"a">> >>
    /\ cursor_y = 0
    /\ cursor_x = 1
    /\ LoopKey(State, NL, NoInput).buffer = << <<"a">>, <<>>, <<"a">> >>
    /\ LoopKey(State, "a", NoInput).buffer = << <<"a", "a">>, <<"a">> >>

(***************************************************************************)
(* File verbs without a file name, in the session of the generated code    *)
(* (the specification SpecRun).                                            *)
(***************************************************************************)
\* C27: the enter key on open, save or savepy with no file name behind the
\* verb shows the message of an unknown command and leads to insert mode with
\* an empty command line; files, Document, cursor, stored reply and all the
\* rest stay as they are.
C27_BareFileVerbUnknown ==
    \A verb \in {OPEN, SAVE, SAVEPY} :
        (AtVerb(verb) /\ CommandOf(command_str) = verb) =>
            \A inp \in RunInputs :
                LoopKey(State, NL, inp) =
                    [State EXCEPT !.mode = "insert", !.command_str = <<>>,
                                  !.msg = "Unknown command"]

\* C27 witness: savepy is typed without a file name while a reply with code
\* is stored, after an earlier command was reported as unknown
C27_Witness ==
    /\ AtVerb(SAVEPY)
    /\ command_str = <<PREFIX>> \o SAVEPY \o <<" ">>
    /\ ~NoCodeStored
    /\ msg = "Unknown command"
    /\ ~Exists(fs, FILE_F)

====
